---- MODULE Spec2Model ----
(***************************************************************************)
(* perlcritic language server.                                             *)
(*                                                                         *)
(* Spec is the output parser (Critique, Output) and the mapping of its     *)
(* findings to editor diagnostics, one constructor step at a time.         *)
(* ServerSpec is the server around it: initialize, the settings            *)
(* (mergeSettings, validateExecutable), the document events and the        *)
(* validation cycles with the events of their analyzer processes; there    *)
(* an Output is constructed in one step (NewOutput).                       *)
(*                                                                         *)
(* A JavaScript string is a sequence of one-character strings.  The two    *)
(* escape introducers are written "ESC" (U+001B) and "CSI" (U+009B).       *)
(* The characters that occur in the texts given to the parser are the      *)
(* digits, "-", " ", "\n", the letters "a" and "m", "[", ">", "]", ";",    *)
(* "E", "N", "D" and the two introducers; the numeric conversions below    *)
(* are exact on that alphabet (it has no ".", "x", "e" or "Infinity"       *)
(* spellings).  Arguments, executables and messages use more characters    *)
(* and are only compared and searched.                                     *)
(***************************************************************************)
EXTENDS Integers, Sequences, FiniteSets, TLC

VARIABLES outputStr, errorStr, pc, segs, idx, error, critiques,
          hasDiagnosticRelatedInformationCapability, shown, sent,
          initialized, capabilities, defaultSettings, globalSettings,
          validateExecutableCache, documentText, cycles, published

\* the server's own state: the settings, the open document, the
\* validation cycles and what the client currently displays
serverVars == <<initialized, capabilities, defaultSettings, globalSettings,
                validateExecutableCache, documentText, cycles, published>>

vars == <<outputStr, errorStr, pc, segs, idx, error, critiques,
          hasDiagnosticRelatedInformationCapability, shown, sent,
          initialized, capabilities, defaultSettings, globalSettings,
          validateExecutableCache, documentText, cycles, published>>

\* ------------------------------------------------------------------ bounds
MaxRecords == 2
MaxSeverity == 3

\* ------------------------------------------------------------- JS values
\* the value undefined (a field never assigned, an argument not passed)
undefined == <<"undefined">>
NaN == "NaN"

Min(a, b) == IF a < b THEN a ELSE b

\* ------------------------------------------------------- string helpers
WhiteSpace == {" ", "\n"}
Digits == <<"0", "1", "2", "3", "4", "5", "6", "7", "8", "9">>
DigitSet == {Digits[i] : i \in 1..10}
DigitVal(c) == (CHOOSE i \in 1..10 : Digits[i] = c) - 1

RECURSIVE TrimLeft(_)
TrimLeft(s) ==
    IF s # <<>> /\ Head(s) \in WhiteSpace THEN TrimLeft(Tail(s)) ELSE s

RECURSIVE TrimRight(_)
TrimRight(s) ==
    IF s # <<>> /\ s[Len(s)] \in WhiteSpace
    THEN TrimRight(SubSeq(s, 1, Len(s) - 1)) ELSE s

\* String.prototype.trim
trim(s) == TrimRight(TrimLeft(s))

\* does the literal p occur in s at position i
OccursAt(s, p, i) ==
    /\ i + Len(p) - 1 <= Len(s)
    /\ \A k \in 1..Len(p) : s[i + k - 1] = p[k]

\* the first position from i on where the literal p occurs in s, else 0
IndexFrom(s, p, i) ==
    LET P == {k \in i..Len(s) : OccursAt(s, p, k)}
    IN  IF P = {} THEN 0 ELSE CHOOSE k \in P : \A j \in P : k <= j

RECURSIVE SplitFrom(_, _, _)
\* the pieces of s from position i on, cut at each next occurrence of sep
SplitFrom(s, sep, i) ==
    LET k == IndexFrom(s, sep, i)
    IN  IF k = 0 THEN <<SubSeq(s, i, Len(s))>>
        ELSE <<SubSeq(s, i, k - 1)>> \o SplitFrom(s, sep, k + Len(sep))

\* String.prototype.split on a regular expression that is one literal
split(s, sep) == SplitFrom(s, sep, 1)

\* the end-of-record marker /\[\[END\]\]/ and the field separator /\[>\]/
EndMarker == <<"[", "[", "E", "N", "D", "]", "]">>
FieldSep == <<"[", ">", "]">>

\* length of the longest run of characters of class cls starting at s[q]
RECURSIVE RunLen(_, _, _)
RunLen(s, q, cls) ==
    IF q <= Len(s) /\ s[q] \in cls THEN 1 + RunLen(s, q + 1, cls) ELSE 0

\* ------------------------------------------- the ANSI escape expression
\* /[\u001b\u009b][[()#;?]*(?:[0-9]{1,4}(?:;[0-9]{0,4})*)?[0-9A-ORZcf-nqry=><]/g
\* variant: only the ESC introducer is recognized
AnsiIntroEscOnly == {"ESC"}
AnsiIntro == {"ESC", "CSI"}
AnsiInter == {"[", "(", ")", "#", ";", "?"}
AnsiFinal == DigitSet \cup
             {"A", "B", "C", "D", "E", "F", "G", "H", "I", "J", "K", "L",
              "M", "N", "O", "R", "Z", "c", "f", "g", "h", "i", "j", "k",
              "l", "m", "n", "q", "r", "y", "=", ">", "<"}

\* the final byte: the position it matches at, 0 when it does not match
AnsiFinalAt(s, q) == IF q <= Len(s) /\ s[q] \in AnsiFinal THEN q ELSE 0

RECURSIVE AnsiRep(_, _), AnsiRepDigits(_, _, _)
\* (?:;[0-9]{0,4})* then the final byte, greedy with backtracking
AnsiRep(s, q) ==
    IF q <= Len(s) /\ s[q] = ";"
    THEN LET r == AnsiRepDigits(s, q + 1, Min(4, RunLen(s, q + 1, DigitSet)))
         IN  IF r > 0 THEN r ELSE AnsiFinalAt(s, q)
    ELSE AnsiFinalAt(s, q)
AnsiRepDigits(s, q, d) ==
    LET r == AnsiRep(s, q + d)
    IN  IF r > 0 THEN r
        ELSE IF d = 0 THEN 0 ELSE AnsiRepDigits(s, q, d - 1)

RECURSIVE AnsiDigits(_, _, _)
\* [0-9]{1,4} with d digits, then the rest; fewer digits on failure
AnsiDigits(s, q, d) ==
    IF d = 0 THEN 0
    ELSE LET r == AnsiRep(s, q + d)
         IN  IF r > 0 THEN r ELSE AnsiDigits(s, q, d - 1)

\* the optional parameter group, then the final byte
AnsiGroup(s, q) ==
    LET r == AnsiDigits(s, q, Min(4, RunLen(s, q, DigitSet)))
    IN  IF r > 0 THEN r ELSE AnsiFinalAt(s, q)

RECURSIVE AnsiInterTry(_, _, _)
\* [[()#;?]* taking n characters, then the rest; fewer on failure
AnsiInterTry(s, q, n) ==
    LET r == AnsiGroup(s, q + n)
    IN  IF r > 0 THEN r
        ELSE IF n = 0 THEN 0 ELSE AnsiInterTry(s, q, n - 1)

\* position of the last character of the match that starts at s[i], else 0
AnsiMatchEnd(s, i) ==
    IF s[i] \in AnsiIntro
    THEN AnsiInterTry(s, i + 1, RunLen(s, i + 1, AnsiInter))
    ELSE 0

\* the first position from i on where the expression matches, else 0
AnsiNextMatch(s, i) ==
    LET P == {k \in i..Len(s) : AnsiMatchEnd(s, k) > 0}
    IN  IF P = {} THEN 0 ELSE CHOOSE k \in P : \A j \in P : k <= j

RECURSIVE AnsiReplaceFrom(_, _)
\* s from position i on with every match, left to right, deleted
AnsiReplaceFrom(s, i) ==
    LET k == AnsiNextMatch(s, i)
    IN  IF k = 0 THEN SubSeq(s, i, Len(s))
        ELSE SubSeq(s, i, k - 1) \o AnsiReplaceFrom(s, AnsiMatchEnd(s, k) + 1)

\* critiqueText.replace(<the expression>, "")
stripAnsi(s) == AnsiReplaceFrom(s, 1)

\* ------------------------------------------------------ numeric parsing
RECURSIVE DigitsValue(_, _)
DigitsValue(s, acc) ==
    IF s = <<>> THEN acc
    ELSE DigitsValue(Tail(s), 10 * acc + DigitVal(Head(s)))

\* the text parseInt reads its digits from: leading white space and an
\* optional sign removed
parseIntBody(s) ==
    LET t == TrimLeft(s)
    IN  IF t # <<>> /\ Head(t) \in {"-", "+"} THEN Tail(t) ELSE t

\* isNaN(parseInt(string)): there is no digit to read
parseIntIsNaN(s) == RunLen(parseIntBody(s), 1, DigitSet) = 0

\* parseInt(string): leading white space, an optional sign, the longest
\* run of digits; NaN when there is no digit
parseInt(s) ==
    LET t == TrimLeft(s)
        u == parseIntBody(s)
        n == RunLen(u, 1, DigitSet)
    IN  IF n = 0 THEN NaN
        ELSE IF Head(t) = "-" THEN 0 - DigitsValue(SubSeq(u, 1, n), 0)
             ELSE DigitsValue(SubSeq(u, 1, n), 0)

\* isFinite(string): Number(string) is finite.  Number() trims white space,
\* maps the empty string to 0 and otherwise needs the whole text to be a
\* numeric literal (optional sign, digits).
isFinite(s) ==
    LET t == trim(s)
        u == IF t # <<>> /\ Head(t) \in {"-", "+"} THEN Tail(t) ELSE t
    IN  \/ t = <<>>
        \/ (u # <<>> /\ RunLen(u, 1, DigitSet) = Len(u))

\* Critique.isNumber applied to field k of the split record; a missing
\* field is undefined, and parseInt(undefined) is NaN
isNumber(f, k) ==
    /\ k <= Len(f)
    /\ ~parseIntIsNaN(f[k])
    /\ isFinite(f[k])

\* --------------------------------------------------------------- Critique
\* variant: the decrement without the floor at 0
normalizeNoFloor(n) == n - 1

\* n > 0 ? n - 1 : 0
normalize(n) == IF n > 0 THEN n - 1 ELSE 0

ErrorPrefix == <<"Invalid output format (Please check your perltidy settings): ">>

\* Critique.constructor past its first line, on a non-empty text: "error"
\* sets only error, "finding" sets the five data fields, "throw" is the
\* TypeError of undefined.trim()
CritiqueFields(outputText) ==
    LET f == split(outputText, FieldSep)
    IN  IF ~isNumber(f, 1) \/ ~isNumber(f, 2) \/ ~isNumber(f, 3)
        THEN [kind |-> "error", error |-> ErrorPrefix \o outputText]
        ELSE IF Len(f) < 5 THEN [kind |-> "throw"]
        ELSE LET lineInt == parseInt(trim(f[1]))
                 columnInt == parseInt(trim(f[2]))
                 severityInt == parseInt(trim(f[3]))
             IN  [kind |-> "finding",
                  line |-> normalize(lineInt),
                  column |-> normalize(columnInt),
                  severity |-> normalize(severityInt),
                  summary |-> trim(f[4]),
                  explanation |-> trim(f[5])]

\* variant: an empty text is split like any other
CritiqueNoBlankGuard(outputText) == CritiqueFields(outputText)

\* new Critique(outputText): "blank" leaves every field undefined
Critique(outputText) ==
    IF outputText = <<>> THEN [kind |-> "blank"]
    ELSE CritiqueFields(outputText)

\* the text handed to Critique for one segment of the output
cleanText(critiqueText) == stripAnsi(trim(critiqueText))

\* ------------------------------------------------- the analyzer's output
\* decimal text of an integer, as the analyzer prints %l, %c and %s
RECURSIVE DecNat(_)
DecNat(n) == IF n < 10 THEN <<Digits[n + 1]>>
             ELSE DecNat(n \div 10) \o <<Digits[(n % 10) + 1]>>
Dec(n) == IF n < 0 THEN <<"-">> \o DecNat(0 - n) ELSE DecNat(n)

RECURSIVE Join(_, _)
Join(parts, sep) ==
    IF parts = <<>> THEN <<>>
    ELSE IF Len(parts) = 1 THEN parts[1]
    ELSE parts[1] \o sep \o Join(Tail(parts), sep)

\* one record of the --verbose template %l[>]%c[>]%s[>]%m. %e (%p)[>]%d
Record(fields) == Join(fields, FieldSep)

SummaryText == <<" ", "m", " ", "a", " ">>
ExplanationText == <<"a", "m", "\n">>
SGR == <<"ESC", "[", "1", ";", "3", "m">>
Reset == <<"CSI", "0", "m">>
SGRDefault == <<"ESC", "[", "m">>
SGRColor256 == <<"ESC", "[", "3", "8", ";", "5", ";", "1", "9", "6", "m">>

\* the pairs of escape sequences a colorizing analyzer brackets text with
Styles == {<<SGR, Reset>>, <<SGRColor256, SGRDefault>>}

\* records whose five fields are all present and numeric where they must
\* be: severity s from -1 to MaxSeverity, line 3 - s, column 2 - s
WellFormedOf(s) ==
    Record(<<Dec(3 - s), Dec(2 - s), Dec(s), SummaryText, ExplanationText>>)
WellFormedRecords == {WellFormedOf(s) : s \in (0 - 1)..MaxSeverity}

\* a record with white space around its numeric fields, where sgr and
\* reset stand before, inside and after the numeric fields and inside a
\* field separator
RecordWith(s, sgr, reset) ==
    sgr \o <<" ">> \o Dec(s) \o <<"[">> \o reset \o <<">", "]">>
        \o <<" ">> \o sgr \o Dec(s + 3) \o <<" ">> \o FieldSep
        \o Dec(s) \o reset \o FieldSep
        \o SummaryText \o sgr \o FieldSep \o ExplanationText \o reset

\* the record as a colorizing analyzer writes it, and as a plain one does
Decorated(s, st) == RecordWith(s, st[1], st[2])
Plain(s) == RecordWith(s, <<>>, <<>>)
DecoratedSeverities == {0, 2}
DecoratedRecords == {Decorated(s, st) : s \in DecoratedSeverities, st \in Styles}
PlainRecords == {Plain(s) : s \in {2}}

\* a record whose line field is the text t
MalformedOf(t) == Record(<<<<t>>, <<"1">>, <<"1">>, <<"m">>, <<"a">>>>)

MalformedRecords ==
    { MalformedOf("a"),
      Record(<<<<"1">>, <<"1">>, <<"1", "a">>, <<"m">>, <<"a">>>>),
      Record(<<<<"2">>, <<>>, <<"2">>, <<"m">>, <<"a">>>>),
      Record(<<<<"1">>, <<"2">>>>) }

\* numeric line, column and severity but fewer than five fields
ShortRecords ==
    { Record(<<<<"1">>, <<"1">>, <<"2">>>>),
      Record(<<<<"1">>, <<"1">>, <<"0">>, <<"m">>>>) }

BlankRecords == { <<>>, <<" ", "\n">> }

RecordPool == WellFormedRecords \cup DecoratedRecords \cup PlainRecords
                  \cup MalformedRecords \cup ShortRecords \cup BlankRecords

RECURSIVE Streams(_)
\* sequences of up to n records of the pool
Streams(n) ==
    IF n = 0 THEN {<<>>}
    ELSE LET shorter == Streams(n - 1)
         IN  shorter \cup {Append(rs, r) : rs \in {x \in shorter : Len(x) = n - 1},
                                            r \in RecordPool}

\* what the analyzer can write to stdout: records joined by the marker,
\* with or without the marker after the last record
Outputs ==
    {Join(rs, EndMarker) : rs \in Streams(MaxRecords)}
        \cup {Join(rs, EndMarker) \o EndMarker : rs \in Streams(MaxRecords)}

\* what reaches Output as errorStr: nothing, the empty text, or a message
ErrorTexts == {undefined, <<>>, <<"a", " ", "m">>}

\* ---------------------------------------------------------- the settings
\* the two default arguments of defaultSettings.additionalArguments
Quiet == <<"-", "-", "q", "u", "i", "e", "t">>
VerboseTemplate ==
    <<"-", "-", "v", "e", "r", "b", "o", "s", "e", "=", "%", "l",
      "[", ">", "]", "%", "c", "[", ">", "]", "%", "s", "[", ">",
      "]", "%", "m", ".", " ", "%", "e", " ", "(", "%", "p", ")",
      "[", ">", "]", "%", "d", "[", "[", "E", "N", "D", "]", "]">>
ExePerlcritic == <<"p", "e", "r", "l", "c", "r", "i", "t", "i", "c">>
Gentle == <<"g", "e", "n", "t", "l", "e">>

\* the object literal bound to the const defaultSettings
DefaultSettingsLiteral ==
    [maxNumberOfProblems |-> 10,
     executable |-> ExePerlcritic,
     severity |-> Gentle,
     onSave |-> FALSE,
     additionalArguments |-> <<Quiet, VerboseTemplate>>]

\* the module-level state of server.ts once the module is loaded
ServerStart ==
    /\ initialized = FALSE
    /\ capabilities = undefined
    /\ defaultSettings = DefaultSettingsLiteral
    /\ globalSettings = DefaultSettingsLiteral
    /\ validateExecutableCache = <<>>
    /\ documentText = undefined
    /\ cycles = <<>>
    /\ published = <<>>

\* ------------------------------------------------------------- the state
Init ==
    /\ outputStr \in Outputs
    /\ errorStr \in ErrorTexts
    /\ hasDiagnosticRelatedInformationCapability \in BOOLEAN
    /\ pc = "new"
    /\ segs = <<>>
    /\ idx = 0
    /\ error = undefined
    /\ critiques = <<>>
    /\ shown = <<>>
    /\ sent = <<>>
    /\ ServerStart

\* variant: the condition tests for undefined only
truthyDefined(s) == s # undefined

\* a JavaScript string used as a condition
truthy(s) == s # undefined /\ s # <<>>

\* variant: a non-empty output is parsed before the error text is looked at
OutputBranchStdoutFirst(errStr, outStr) ==
    IF truthy(outStr) THEN "parse"
    ELSE IF truthy(errStr) THEN "error" ELSE "empty"

\* the two early returns of Output.constructor: an error text wins, an
\* empty output returns, otherwise the output is parsed
OutputBranch(errStr, outStr) ==
    IF truthy(errStr) THEN "error"
    ELSE IF ~truthy(outStr) THEN "empty" ELSE "parse"

\* Output.constructor up to the forEach
OutputNew ==
    /\ pc = "new"
    /\ IF OutputBranch(errorStr, outputStr) = "error"
       THEN /\ error' = errorStr
            /\ pc' = "constructed"
            /\ UNCHANGED <<segs, idx>>
       ELSE IF OutputBranch(errorStr, outputStr) = "empty"
       THEN /\ pc' = "constructed"
            /\ UNCHANGED <<error, segs, idx>>
       ELSE /\ segs' = split(outputStr, EndMarker)
            /\ idx' = 1
            /\ pc' = "forEach"
            /\ UNCHANGED error
    /\ UNCHANGED <<outputStr, errorStr, critiques,
                   hasDiagnosticRelatedInformationCapability, shown, sent>>
    /\ UNCHANGED serverVars

\* critique.severity used as a condition: a finding whose normalized
\* severity is not 0
severityTruthy(c) == c.kind = "finding" /\ c.severity # 0

\* the forEach callback on one segment: the effect on error and critiques
callbackError(c, err) == IF c.kind = "error" THEN c.error ELSE err
callbackCritiques(c, crs) ==
    IF c.kind # "error" /\ severityTruthy(c) THEN Append(crs, c) ELSE crs

\* where the constructor is after the callback ran on segment i of n
callbackPc(c, i, n) ==
    IF c.kind = "throw" THEN "threw"
    ELSE IF i = n THEN "constructed" ELSE "forEach"

\* one iteration of outputStr.split(...).forEach(...)
OutputForEach ==
    /\ pc = "forEach"
    /\ LET c == Critique(cleanText(segs[idx]))
       IN  /\ pc' = callbackPc(c, idx, Len(segs))
           /\ IF c.kind = "throw"
              THEN UNCHANGED <<error, critiques, idx>>
              ELSE /\ error' = callbackError(c, error)
                   /\ critiques' = callbackCritiques(c, critiques)
                   /\ idx' = idx + 1
    /\ UNCHANGED <<outputStr, errorStr, segs,
                   hasDiagnosticRelatedInformationCapability, shown, sent>>
    /\ UNCHANGED serverVars

\* ------------------------------------------------- validateTextDocument
MAX_VALUE == "Number.MAX_VALUE"
DocumentUri == "file:///a.pl"

diagnosticRange(critique) ==
    [start |-> [line |-> critique.line, character |-> critique.column],
     end |-> [line |-> critique.line, character |-> MAX_VALUE]]

\* the diagnostic built from one critique
diagnosticOf(critique, cap) ==
    IF cap
    THEN [severity |-> "Warning",
          range |-> diagnosticRange(critique),
          message |-> critique.summary,
          source |-> "perlcritic",
          relatedInformation |->
              <<[location |-> [uri |-> DocumentUri,
                               range |-> diagnosticRange(critique)],
                 message |-> critique.explanation]>>]
    ELSE [severity |-> "Warning",
          range |-> diagnosticRange(critique),
          message |-> critique.summary,
          source |-> "perlcritic"]

RECURSIVE diagnosticsOfReversed(_, _)
\* variant: each diagnostic is put in front of the earlier ones
diagnosticsOfReversed(crs, cap) ==
    IF crs = <<>> THEN <<>>
    ELSE diagnosticsOfReversed(Tail(crs), cap) \o <<diagnosticOf(Head(crs), cap)>>

RECURSIVE diagnosticsOf(_, _)
\* output.critiques.forEach(... diagnostics.push(diagnostic))
diagnosticsOf(crs, cap) ==
    IF crs = <<>> THEN <<>>
    ELSE <<diagnosticOf(Head(crs), cap)>> \o diagnosticsOf(Tail(crs), cap)

\* validateTextDocument once validate resolved with the Output
ValidateTextDocument ==
    /\ pc = "constructed"
    /\ IF truthy(error)
       THEN /\ shown' = Append(shown, error)
            /\ UNCHANGED sent
       ELSE /\ sent' = Append(sent, [uri |-> DocumentUri,
                                     diagnostics |-> diagnosticsOf(critiques,
                                         hasDiagnosticRelatedInformationCapability)])
            /\ UNCHANGED shown
    /\ pc' = "returned"
    /\ UNCHANGED <<outputStr, errorStr, segs, idx, error, critiques,
                   hasDiagnosticRelatedInformationCapability>>
    /\ UNCHANGED serverVars

Next == OutputNew \/ OutputForEach \/ ValidateTextDocument

Spec == Init /\ [][Next]_vars

\* ======================================================================
\* The server: initialize, configuration, document events and the
\* validation cycles with their analyzer processes
\* ======================================================================
MaxCycles == 2

\* an Output on which no callback ran yet
NoOutput == [threw |-> FALSE, error |-> undefined, critiques |-> <<>>]

\* the forEach callback of Output.constructor for the Critique c of one
\* segment, o being the Output as the earlier callbacks left it; threw
\* when a callback raised, which ends the forEach and the constructor
OutputCallback(o, c) ==
    IF o.threw \/ c.kind = "throw"
    THEN [o EXCEPT !.threw = TRUE]
    ELSE [threw |-> FALSE,
          error |-> callbackError(c, o.error),
          critiques |-> callbackCritiques(c, o.critiques)]

\* the forEach of Output.constructor run to its end on the segments sg
OutputCallbacks(sg) ==
    LET after[i \in 0..Len(sg)] ==
            IF i = 0 THEN NoOutput
            ELSE OutputCallback(after[i - 1], Critique(cleanText(sg[i])))
    IN  after[Len(sg)]

\* new Output('', errorStr): with no output text the constructor returns
\* before the split, with the error text if there is one
OutputNoStdout(errStr) ==
    IF OutputBranch(errStr, <<>>) = "error"
    THEN [threw |-> FALSE, error |-> errStr, critiques |-> <<>>]
    ELSE NoOutput

\* new Output(outputStr, errorStr) as one value
NewOutput(outStr, errStr) ==
    IF OutputBranch(errStr, outStr) = "parse"
    THEN OutputCallbacks(split(outStr, EndMarker))
    ELSE OutputNoStdout(errStr)

\* ----------------------------------------------------------- onInitialize
\* the client capabilities an initialize request can carry: a field that
\* is not declared is not in the record
ClientCapabilities ==
    { [workspace |-> [configuration |-> TRUE]],
      [textDocument |-> [publishDiagnostics |-> [versionSupport |-> TRUE]]],
      [textDocument |-> [publishDiagnostics |-> [relatedInformation |-> TRUE]]] }

\* variant: declaring publishDiagnostics is taken for the capability
declaredRelatedInformationLoose(caps) ==
    /\ "textDocument" \in DOMAIN caps
    /\ "publishDiagnostics" \in DOMAIN caps.textDocument

\* !!(capabilities.textDocument && capabilities.textDocument
\*    .publishDiagnostics && ....publishDiagnostics.relatedInformation)
declaredRelatedInformation(caps) ==
    /\ "textDocument" \in DOMAIN caps
    /\ "publishDiagnostics" \in DOMAIN caps.textDocument
    /\ "relatedInformation" \in DOMAIN caps.textDocument.publishDiagnostics
    /\ caps.textDocument.publishDiagnostics.relatedInformation

\* connection.onInitialize
OnInitialize ==
    /\ ~initialized
    /\ \E caps \in ClientCapabilities :
          /\ capabilities' = caps
          /\ hasDiagnosticRelatedInformationCapability' =
                 declaredRelatedInformation(caps)
    /\ initialized' = TRUE
    /\ UNCHANGED <<defaultSettings, globalSettings, validateExecutableCache,
                   documentText, cycles, published>>
    /\ UNCHANGED <<outputStr, errorStr, pc, segs, idx, error, critiques,
                   shown, sent>>

\* ---------------------------------------------------------- mergeSettings
Brutal == <<"b", "r", "u", "t", "a", "l">>
ArgCount == <<"-", "-", "c", "o", "u", "n", "t">>
ArgVerbose == <<"-", "-", "v", "e", "r", "b", "o", "s", "e">>
ArgStatisticsOnly == <<"-", "-", "s", "t", "a", "t", "i", "s", "t", "i", "c",
      "s", "-", "o", "n", "l", "y">>
ArgList == <<"-", "-", "l", "i", "s", "t">>
ArgListEnabled == <<"-", "-", "l", "i", "s", "t", "-", "e", "n", "a", "b",
      "l", "e", "d">>
ArgListThemes == <<"-", "-", "l", "i", "s", "t", "-", "t", "h", "e", "m",
      "e", "s">>
ArgProfileProto == <<"-", "-", "p", "r", "o", "f", "i", "l", "e", "-", "p",
      "r", "o", "t", "o">>
ArgC == <<"-", "C">>
ArgPager == <<"-", "-", "p", "a", "g", "e", "r">>
ArgDoc == <<"-", "-", "d", "o", "c">>
ArgForce == <<"-", "-", "f", "o", "r", "c", "e">>
ArgProfile == <<"-", "-", "p", "r", "o", "f", "i", "l", "e">>
ArgP == <<"-", "p">>
ArgProfileFile == <<"a", ".", "r", "c">>
ArgProfileEquals == ArgProfile \o <<"=">> \o ArgProfileFile

\* the arguments the README names as overriding the output format
FormatArguments ==
    {ArgCount, ArgVerbose, ArgStatisticsOnly, ArgList, ArgListEnabled,
     ArgListThemes, ArgProfileProto, ArgC, ArgPager, ArgDoc}

\* variant: the alternatives of the expression without verbose
FilterWordsNoVerbose ==
    { <<"c", "o", "u", "n", "t">>,
      <<"l", "i", "s", "t">>,
      <<"p", "r", "o", "f", "i", "l", "e", "-", "p", "r", "o",
        "t", "o">>,
      <<"s", "t", "a", "t", "i", "s", "t", "i", "c", "s", "-",
        "o", "n", "l", "y">>,
      <<"-", "C">>,
      <<"p", "a", "g", "e", "r">>,
      <<"d", "o", "c">>,
      <<"q", "u", "i", "e", "t">> }

\* the alternatives of
\* /count|list|profile-proto|statistics-only|-C|pager|doc|verbose|quiet/
FilterWords ==
    { <<"c", "o", "u", "n", "t">>,
      <<"l", "i", "s", "t">>,
      <<"p", "r", "o", "f", "i", "l", "e", "-", "p", "r", "o",
        "t", "o">>,
      <<"s", "t", "a", "t", "i", "s", "t", "i", "c", "s", "-",
        "o", "n", "l", "y">>,
      <<"-", "C">>,
      <<"p", "a", "g", "e", "r">>,
      <<"d", "o", "c">>,
      <<"v", "e", "r", "b", "o", "s", "e">>,
      <<"q", "u", "i", "e", "t">> }

\* a.match(...) is not null: one of the alternatives occurs in a
matchesFilter(a) == \E w \in FilterWords : IndexFrom(a, w, 1) # 0

\* Array.prototype.indexOf
indexOf(list, a) ==
    LET K == {k \in 1..Len(list) : list[k] = a}
    IN  IF K = {} THEN 0 - 1 ELSE (CHOOSE k \in K : \A j \in K : k <= j) - 1

\* `--${severity}` and `--top=${maxNumberOfProblems}`
severityArgument(severity) == <<"-", "-">> \o severity
topArgument(n) == <<"-", "-", "t", "o", "p", "=">> \o Dec(n)

\* the settings section of a configuration change: a sequence that is
\* empty when change.settings.perlcritic is absent, else holds the object;
\* an object without additionalArguments makes mergeSettings raise
mergeSettings(newSettings, defaults) ==
    IF newSettings = <<>>
    THEN [threw |-> FALSE, settings |-> defaults, defaults |-> defaults]
    ELSE IF "additionalArguments" \notin DOMAIN newSettings[1]
    THEN [threw |-> TRUE, settings |-> defaults, defaults |-> defaults]
    ELSE LET n == newSettings[1]
             user == n.additionalArguments
             withSeverity ==
                 IF indexOf(user, ArgProfile) = 0 - 1 /\ indexOf(user, ArgP) = 0 - 1
                 THEN Append(user, severityArgument(n.severity))
                 ELSE user
             withTop == Append(withSeverity, topArgument(n.maxNumberOfProblems))
             kept == SelectSeq(withTop, LAMBDA a : ~matchesFilter(a))
         IN  [threw |-> FALSE,
              settings |-> [n EXCEPT !.additionalArguments =
                                         defaults.additionalArguments \o kept],
              defaults |-> defaults]

\* ------------------------------------------------------ validateExecutable
ExeMissing == <<"n", "o", "p", "e">>
PathPerlcritic ==
    <<"/", "u", "s", "r", "/", "b", "i", "n", "/", "p", "e",
      "r", "l", "c", "r", "i", "t", "i", "c">>

\* the file system the server runs on: which.sync finds perlcritic on the
\* PATH and accepts the runnable file given by its path
whichFinds(executable) == executable \in {ExePerlcritic, PathPerlcritic}
whichSync(executable) == PathPerlcritic
accessOk(executable) == executable = PathPerlcritic

\* "" + error for the error raised by which.sync
whichError(executable) == <<"Error: not found: ">> \o executable

\* variant: whatever is cached answers for every name
validateExecutableAnyName(executable, cache) ==
    IF cache = <<>>
    THEN LET accessed ==
                 IF IndexFrom(executable, <<"/">>, 1) # 0
                    /\ accessOk(executable)
                 THEN executable
                 ELSE <<>>
             result ==
                 IF whichFinds(executable) THEN whichSync(executable)
                 ELSE accessed
         IN  [result |-> result,
              cache |-> <<executable, result>>,
              shown |-> IF whichFinds(executable) THEN <<>>
                        ELSE <<whichError(executable)>>]
    ELSE [result |-> cache[2], cache |-> cache, shown |-> <<>>]

\* validateExecutable(executable): the path returned, the cache after the
\* call and the messages shown by the call
validateExecutable(executable, cache) ==
    IF cache = <<>> \/ cache[1] # executable
    THEN LET accessed ==
                 IF IndexFrom(executable, <<"/">>, 1) # 0 /\ accessOk(executable)
                 THEN executable ELSE <<>>
             result == IF whichFinds(executable) THEN whichSync(executable)
                       ELSE accessed
         IN  [result |-> result,
              cache |-> <<executable, result>>,
              shown |-> IF whichFinds(executable) THEN <<>>
                        ELSE <<whichError(executable)>>]
    ELSE [result |-> cache[2], cache |-> cache, shown |-> <<>>]

\* ------------------------------------------------ the analyzer processes
\* what one run of the analyzer writes: the chunks of its stdout and of
\* its stderr, each stream in its own order
ProcessRuns ==
    { [out |-> <<WellFormedOf(2) \o EndMarker>>, err |-> <<>>],
      [out |-> <<Plain(2) \o EndMarker>>, err |-> << <<"a">> >>],
      [out |-> <<MalformedOf("a") \o EndMarker \o WellFormedOf(2)>>,
       err |-> <<>>],
      [out |-> <<Record(<<<<"1">>, <<"1">>, <<"2">>>>)>>, err |-> <<>>] }

\* the texts of the open document
Texts == { <<>>, <<"a">>, <<"m">> }

\* the error child_process.spawn raises for an empty file name
SpawnError == <<"TypeError: The argument 'file' cannot be empty">>

\* variant: an empty text is passed to the analyzer like any other
validateSpawnsOnEmpty(text, settings, cache) ==
    LET v == validateExecutable(settings.executable, cache)
    IN  IF v.result = <<>>
        THEN [spawned |-> FALSE, output |-> OutputNoStdout(SpawnError),
              errorStrPassed |-> SpawnError, cache |-> v.cache, shown |-> v.shown]
        ELSE [spawned |-> TRUE, output |-> NoOutput,
              errorStrPassed |-> undefined, cache |-> v.cache, shown |-> v.shown]

\* validate(text) until it returns the promise: resolved at once for an
\* empty text and when spawn raises, else pending on a spawned process
validate(text, settings, cache) ==
    IF text = <<>>
    THEN [spawned |-> FALSE, output |-> OutputNoStdout(<<>>),
          errorStrPassed |-> <<>>, cache |-> cache, shown |-> <<>>]
    ELSE LET v == validateExecutable(settings.executable, cache)
         IN  IF v.result = <<>>
             THEN [spawned |-> FALSE, output |-> OutputNoStdout(SpawnError),
                   errorStrPassed |-> SpawnError, cache |-> v.cache,
                   shown |-> v.shown]
             ELSE [spawned |-> TRUE, output |-> NoOutput,
                   errorStrPassed |-> undefined, cache |-> v.cache,
                   shown |-> v.shown]

\* variant: the diagnostics are sent before the error is looked at
afterAwaitSendsAlways(output, cap) ==
    [shown |-> IF truthy(output.error) THEN <<output.error>> ELSE <<>>,
     sent |-> <<[uri |-> DocumentUri,
                 diagnostics |-> diagnosticsOf(output.critiques, cap)]>>]

\* validateTextDocument after the await: the messages it shows and the
\* diagnostics it sends
afterAwait(output, cap) ==
    IF truthy(output.error)
    THEN [shown |-> <<output.error>>, sent |-> <<>>]
    ELSE [shown |-> <<>>,
          sent |-> <<[uri |-> DocumentUri,
                      diagnostics |-> diagnosticsOf(output.critiques, cap)]>>]

\* variant: diagnostics already displayed are kept
displayKeepsFirst(sends, before) ==
    IF sends = <<>> \/ before # <<>> THEN before
    ELSE sends[Len(sends)].diagnostics

\* what the client displays for the document once it received the
\* publishes sends, before being what it displayed until then
display(sends, before) ==
    IF sends = <<>> THEN before ELSE sends[Len(sends)].diagnostics

\* the cycle a call of validateTextDocument starts on the event trigger,
\* v being what validate returned: the cycle runs with its process, or,
\* the promise being resolved already, went on after the await at once;
\* onSave records the setting in force at the call
cycleStarted(text, trigger, onSave, v, run, cap) ==
    IF v.spawned
    THEN [text |-> text,
          trigger |-> trigger,
          onSave |-> onSave,
          spawned |-> TRUE,
          state |-> "running",
          stdout |-> run.out,
          stderr |-> run.err,
          stderrAll |-> Join(run.err, <<>>),
          outputStr |-> <<>>,
          errorStr |-> <<>>,
          errorStrPassed |-> v.errorStrPassed,
          output |-> v.output,
          shown |-> v.shown,
          sent |-> <<>>]
    ELSE [text |-> text,
          trigger |-> trigger,
          onSave |-> onSave,
          spawned |-> FALSE,
          state |-> "resolved",
          stdout |-> <<>>,
          stderr |-> <<>>,
          stderrAll |-> <<>>,
          outputStr |-> <<>>,
          errorStr |-> <<>>,
          errorStrPassed |-> v.errorStrPassed,
          output |-> v.output,
          shown |-> v.shown \o afterAwait(v.output, cap).shown,
          sent |-> afterAwait(v.output, cap).sent]

\* validateTextDocument(document) called for the document with the text
\* text under the settings in force; run is what the analyzer writes if
\* it is spawned
validateTextDocument(text, trigger, settings, run) ==
    /\ cycles' = Append(cycles,
           cycleStarted(text, trigger, settings.onSave,
                        validate(text, settings, validateExecutableCache),
                        run, hasDiagnosticRelatedInformationCapability))
    /\ validateExecutableCache' =
           validate(text, settings, validateExecutableCache).cache
    /\ published' = display(cycles'[Len(cycles')].sent, published)

\* ----------------------------------------------------- the client's events
\* the perlcritic sections a configuration change can carry
ConfigurationSections ==
    { <<>>,
      <<[maxNumberOfProblems |-> 5, executable |-> ExePerlcritic,
         severity |-> Brutal, onSave |-> TRUE,
         additionalArguments |->
             <<ArgCount, ArgVerbose, ArgForce, ArgStatisticsOnly, ArgList,
               ArgListEnabled>>]>>,
      <<[maxNumberOfProblems |-> 10, executable |-> ExeMissing,
         severity |-> Gentle, onSave |-> FALSE,
         additionalArguments |->
             <<ArgListThemes, ArgProfileProto, ArgC, ArgPager, ArgDoc,
               ArgProfile, ArgProfileFile>>]>>,
      <<[maxNumberOfProblems |-> 10, executable |-> PathPerlcritic,
         severity |-> Gentle, onSave |-> FALSE,
         additionalArguments |-> <<ArgProfileEquals>>]>>,
      <<[maxNumberOfProblems |-> 10, executable |-> ExeMissing,
         severity |-> Gentle, onSave |-> TRUE]>> }

\* connection.onDidChangeConfiguration
OnDidChangeConfiguration ==
    /\ initialized
    /\ documentText = undefined \/ Len(cycles) < MaxCycles
    /\ \E section \in ConfigurationSections, run \in ProcessRuns :
          LET m == mergeSettings(section, defaultSettings)
              settings == IF m.threw THEN globalSettings ELSE m.settings
          IN  /\ globalSettings' = settings
              /\ defaultSettings' = m.defaults
              /\ IF documentText = undefined
                 THEN UNCHANGED <<cycles, validateExecutableCache, published>>
                 ELSE validateTextDocument(documentText, "config", settings, run)
    /\ UNCHANGED <<initialized, capabilities, documentText>>
    /\ UNCHANGED <<outputStr, errorStr, pc, segs, idx, error, critiques,
                   hasDiagnosticRelatedInformationCapability, shown, sent>>

\* the conditions of the two document handlers
validatesOnChange(settings) == ~settings.onSave
validatesOnSave(settings) == settings.onSave

\* documents.onDidChangeContent: the document was opened or its text
\* changed
OnDidChangeContent ==
    /\ initialized
    /\ ~validatesOnChange(globalSettings) \/ Len(cycles) < MaxCycles
    /\ \E text \in Texts \ {documentText}, run \in ProcessRuns :
          /\ documentText' = text
          /\ IF validatesOnChange(globalSettings)
             THEN validateTextDocument(text, "change", globalSettings, run)
             ELSE UNCHANGED <<cycles, validateExecutableCache, published>>
    /\ UNCHANGED <<initialized, capabilities, defaultSettings, globalSettings>>
    /\ UNCHANGED <<outputStr, errorStr, pc, segs, idx, error, critiques,
                   hasDiagnosticRelatedInformationCapability, shown, sent>>

\* documents.onDidSave
OnDidSave ==
    /\ initialized
    /\ documentText # undefined
    /\ ~validatesOnSave(globalSettings) \/ Len(cycles) < MaxCycles
    /\ \E run \in ProcessRuns :
          IF validatesOnSave(globalSettings)
          THEN validateTextDocument(documentText, "save", globalSettings, run)
          ELSE UNCHANGED <<cycles, validateExecutableCache, published>>
    /\ UNCHANGED <<initialized, capabilities, defaultSettings, globalSettings,
                   documentText>>
    /\ UNCHANGED <<outputStr, errorStr, pc, segs, idx, error, critiques,
                   hasDiagnosticRelatedInformationCapability, shown, sent>>

\* ------------------------------------------------- the process's events
\* worker.stdout.on('data'): the next stdout chunk of cycle i arrives
StdoutData(i) ==
    /\ cycles[i].stdout # <<>>
    /\ cycles' = [cycles EXCEPT
           ![i].outputStr = @ \o Head(cycles[i].stdout),
           ![i].stdout = Tail(@)]
    /\ UNCHANGED <<initialized, capabilities, defaultSettings, globalSettings,
                   validateExecutableCache, documentText, published>>
    /\ UNCHANGED <<outputStr, errorStr, pc, segs, idx, error, critiques,
                   hasDiagnosticRelatedInformationCapability, shown, sent>>

\* worker.stderr.on('data'): the next stderr chunk of cycle i arrives
StderrData(i) ==
    /\ cycles[i].stderr # <<>>
    /\ cycles' = [cycles EXCEPT
           ![i].errorStr = @ \o Head(cycles[i].stderr),
           ![i].stderr = Tail(@)]
    /\ UNCHANGED <<initialized, capabilities, defaultSettings, globalSettings,
                   validateExecutableCache, documentText, published>>
    /\ UNCHANGED <<outputStr, errorStr, pc, segs, idx, error, critiques,
                   hasDiagnosticRelatedInformationCapability, shown, sent>>

\* variant: the end of stdout is handled once stderr has been read too
stdoutEndReadyAfterStderr(c) ==
    c.state = "running" /\ c.stdout = <<>> /\ c.stderr = <<>>

\* stdout ends once all its chunks were delivered; the chunks of stderr
\* are delivered independently of it
stdoutEndReady(c) == c.state = "running" /\ c.stdout = <<>>

\* the cycle c once its promise resolved with the Output o and
\* validateTextDocument went on after its await; when the constructor
\* raised in the 'end' handler, the promise stays pending
cycleResolved(c, o, cap) ==
    IF o.threw
    THEN [c EXCEPT !.state = "threw",
                   !.errorStrPassed = c.errorStr,
                   !.output = o]
    ELSE [c EXCEPT !.state = "resolved",
                   !.errorStrPassed = c.errorStr,
                   !.output = o,
                   !.shown = @ \o afterAwait(o, cap).shown,
                   !.sent = @ \o afterAwait(o, cap).sent]

\* the 'end' handler of the stdout of cycle c:
\* resolve(new Output(outputStr, errorStr))
cycleAfterEnd(c, cap) ==
    cycleResolved(c, NewOutput(c.outputStr, c.errorStr), cap)

\* worker.stdout.on('end')
StdoutEnd(i) ==
    /\ stdoutEndReady(cycles[i])
    /\ cycles' = [cycles EXCEPT ![i] =
           cycleAfterEnd(@, hasDiagnosticRelatedInformationCapability)]
    /\ published' = display(cycles'[i].sent, published)
    /\ UNCHANGED <<initialized, capabilities, defaultSettings, globalSettings,
                   validateExecutableCache, documentText>>
    /\ UNCHANGED <<outputStr, errorStr, pc, segs, idx, error, critiques,
                   hasDiagnosticRelatedInformationCapability, shown, sent>>

ServerInit ==
    /\ ServerStart
    /\ hasDiagnosticRelatedInformationCapability = FALSE
    /\ outputStr = <<>>
    /\ errorStr = undefined
    /\ pc = "idle"
    /\ segs = <<>>
    /\ idx = 0
    /\ error = undefined
    /\ critiques = <<>>
    /\ shown = <<>>
    /\ sent = <<>>

ServerNext ==
    \/ OnInitialize
    \/ OnDidChangeConfiguration
    \/ OnDidChangeContent
    \/ OnDidSave
    \/ \E i \in 1..Len(cycles) : StdoutData(i)
    \/ \E i \in 1..Len(cycles) : StderrData(i)
    \/ \E i \in 1..Len(cycles) : StdoutEnd(i)

ServerSpec == ServerInit /\ [][ServerNext]_vars

\* ======================================================================
\* Properties
\* ======================================================================
Max(a, b) == IF a > b THEN a ELSE b

\* a text that is present and not empty
NonEmpty(s) == s # undefined /\ s # <<>>

\* the fields of a record as the parser sees them
FieldsOf(seg) == split(cleanText(seg), FieldSep)

\* a record of white space only
IsBlankRecord(seg) == \A k \in 1..Len(seg) : seg[k] \in WhiteSpace

\* all five fields present, line, column and severity numeric
WellFormedRecord(seg) ==
    /\ Len(FieldsOf(seg)) >= 5
    /\ \A k \in 1..3 : isNumber(FieldsOf(seg), k)

\* a record with text whose line, column or severity is missing or not
\* numeric
MalformedRecord(seg) ==
    /\ cleanText(seg) # <<>>
    /\ \E k \in 1..3 : ~isNumber(FieldsOf(seg), k)

\* the severity the analyzer reported, before normalization
SeverityOf(seg) == parseInt(FieldsOf(seg)[3])

\* the finding of a well-formed record, from its parsed integers
FindingOf(seg) ==
    LET f == FieldsOf(seg)
    IN  [kind |-> "finding",
         line |-> Max(parseInt(f[1]) - 1, 0),
         column |-> Max(parseInt(f[2]) - 1, 0),
         severity |-> Max(parseInt(f[3]) - 1, 0),
         summary |-> trim(f[4]),
         explanation |-> trim(f[5])]

\* C1: when parse processes a well-formed record of reported severity S,
\* S = 0 omits the finding without error and every S >= 1 (S = 1 too)
\* appends the finding with severityRank S - 1.
C1_SeveritySkipRule ==
    [][(pc = "forEach" /\ WellFormedRecord(segs[idx]))
         => LET S == SeverityOf(segs[idx])
            IN  /\ S = 0 => (critiques' = critiques /\ error' = error)
                /\ S >= 1 => /\ critiques' = Append(critiques, FindingOf(segs[idx]))
                             /\ FindingOf(segs[idx]).severity = S - 1
                             /\ error' = error]_vars

\* C2: an Output never holds both an error and findings: whenever error is
\* set, critiques is empty.
C2_ErrorExcludesFindings == NonEmpty(error) => critiques = <<>>

\* C3: with a non-empty stderr text the result is the error state with that
\* text verbatim and no findings, and stdout is never split or parsed.
C3_StderrWins ==
    (NonEmpty(errorStr) /\ pc # "new")
        => /\ error = errorStr
           /\ critiques = <<>>
           /\ segs = <<>>
           /\ pc \in {"constructed", "returned"}

C3_Witness ==
    /\ NonEmpty(errorStr)
    /\ pc = "constructed"
    /\ error = errorStr
    /\ outputStr = Join(<<WellFormedOf(2), MalformedOf("a")>>, EndMarker)

\* C4: with empty stderr, the record that is the first malformed one of
\* the stream puts the result into the error state, and the message is the
\* fixed prefix followed by the trimmed, escape-stripped text of that
\* record.
C4_MalformedRecordIsTheError ==
    (pc = "constructed" /\ ~NonEmpty(errorStr))
        => \A i \in 1..Len(segs) :
              (MalformedRecord(segs[i])
                   /\ \A j \in 1..(i - 1) : ~MalformedRecord(segs[j]))
                  => error = ErrorPrefix \o cleanText(segs[i])

\* C5: processing an empty or white-space-only record raises nothing and
\* leaves the error and the findings as they were, wherever the record
\* stands in the stream.
C5_BlankRecordIsBenign ==
    [][(pc = "forEach" /\ IsBlankRecord(segs[idx]))
         => (error' = error /\ critiques' = critiques /\ pc' # "threw")]_vars

C5_Witness ==
    /\ pc = "constructed"
    /\ Len(segs) = 3
    /\ segs[1] = WellFormedOf(2)
    /\ segs[2] = <<" ", "\n">>
    /\ segs[3] = <<>>
    /\ critiques = <<FindingOf(WellFormedOf(2))>>
    /\ error = undefined

RECURSIVE NotSkipped(_)
\* the findings of the records whose reported severity is not 0, in order
NotSkipped(records) ==
    IF records = <<>> THEN <<>>
    ELSE (IF SeverityOf(Head(records)) # 0
          THEN <<FindingOf(Head(records))>> ELSE <<>>)
             \o NotSkipped(Tail(records))

\* C6: for well-formed records of severity >= 0 joined by the marker and
\* empty stderr, there is no error and the findings are exactly those of
\* the records whose severity is not 0, in stream order.
C6_FindingsAreTheNotSkippedRecords ==
    (/\ pc = "constructed"
     /\ ~NonEmpty(errorStr)
     /\ segs # <<>>
     /\ \A i \in 1..Len(segs) :
           WellFormedRecord(segs[i]) /\ SeverityOf(segs[i]) >= 0)
        => (error = undefined /\ critiques = NotSkipped(segs))

\* C7: a finding appended by parse has line, column and severityRank equal
\* to max(n - 1, 0) of the record's parsed integers, all >= 0, and the
\* trimmed fourth and fifth fields as summary and explanation.
C7_FindingIsNormalized ==
    [][(pc = "forEach" /\ critiques' # critiques)
         => /\ critiques' = Append(critiques, FindingOf(segs[idx]))
            /\ FindingOf(segs[idx]).line >= 0
            /\ FindingOf(segs[idx]).column >= 0
            /\ FindingOf(segs[idx]).severity >= 0]_vars

C7_Witness ==
    /\ pc = "constructed"
    /\ segs = <<WellFormedOf(3)>>
    /\ parseInt(FieldsOf(segs[1])[1]) = 0
    /\ parseInt(FieldsOf(segs[1])[2]) = 0 - 1
    /\ critiques = <<[kind |-> "finding", line |-> 0, column |-> 0,
                      severity |-> 2, summary |-> <<"m", " ", "a">>,
                      explanation |-> <<"a", "m">>]>>

\* C8: a record that is well-formed once its escape sequences are deleted
\* has the same effect as the escape-free record: the same finding (or the
\* same skip) and no format error.
C8_EscapesAreRemovedBeforeSplit ==
    [][(pc = "forEach" /\ segs[idx] \in DecoratedRecords)
         => LET s == CHOOSE s \in DecoratedSeverities :
                        \E st \in Styles : segs[idx] = Decorated(s, st)
                plain == Critique(cleanText(Plain(s)))
            IN  /\ plain.kind = "finding"
                /\ error' = error
                /\ critiques' = callbackCritiques(plain, critiques)
                /\ pc' # "threw"]_vars

C8_Witness ==
    /\ pc = "constructed"
    /\ segs = <<Decorated(2, <<SGR, Reset>>), Decorated(2, <<SGRColor256, SGRDefault>>)>>
    /\ critiques = <<FindingOf(Plain(2)), FindingOf(Plain(2))>>
    /\ critiques[1].line = 1 /\ critiques[1].column = 4
    /\ error = undefined

\* C9: with empty stdout and empty or absent stderr the result is the
\* success state: no error and no findings.
C9_EmptyOutputIsSuccess ==
    (outputStr = <<>> /\ ~NonEmpty(errorStr) /\ pc # "new")
        => /\ error = undefined
           /\ critiques = <<>>
           /\ pc \in {"constructed", "returned"}

C9_Witness ==
    /\ outputStr = <<>>
    /\ errorStr = <<>>
    /\ pc = "constructed"
    /\ error = undefined
    /\ critiques = <<>>

\* C10: the diagnostics sent are one per finding, in the findings' order:
\* diagnostic i has severity Warning, starts at (line, column) of finding
\* i, ends at (line, MAX_VALUE) and carries its summary as message.
C10_DiagnosticsMirrorFindings ==
    (pc = "returned" /\ ~NonEmpty(error))
        => /\ Len(sent) = 1
           /\ Len(sent[1].diagnostics) = Len(critiques)
           /\ \A i \in 1..Len(critiques) :
                 LET d == sent[1].diagnostics[i]
                 IN  /\ d.severity = "Warning"
                     /\ d.range.start = [line |-> critiques[i].line,
                                         character |-> critiques[i].column]
                     /\ d.range.end = [line |-> critiques[i].line,
                                       character |-> MAX_VALUE]
                     /\ d.message = critiques[i].summary

C10_Witness ==
    /\ pc = "returned"
    /\ error = undefined
    /\ Len(critiques) = 2
    /\ critiques[1].line # critiques[2].line
    /\ Len(sent) = 1
    /\ Len(sent[1].diagnostics) = 2
    /\ sent[1].diagnostics[1].range.start.line = critiques[1].line

\* ----------------------------------------------------------------------
\* Properties of the server
\* ----------------------------------------------------------------------
\* the capabilities of the initialize request declare
\* textDocument.publishDiagnostics.relatedInformation
ClientDeclaredRelatedInformation ==
    /\ initialized
    /\ capabilities =
           [textDocument |-> [publishDiagnostics |-> [relatedInformation |-> TRUE]]]

\* C11: every diagnostic a cycle published carries relatedInformation if
\* and only if the client declared the capability at initialize: then it
\* is one entry whose message is the finding's explanation and whose
\* location is the diagnostic's own document and range; otherwise the
\* diagnostic has no relatedInformation at all.
C11_RelatedInformationIffDeclared ==
    \A i \in 1..Len(cycles) : \A k \in 1..Len(cycles[i].sent) :
        \A j \in 1..Len(cycles[i].sent[k].diagnostics) :
            LET d == cycles[i].sent[k].diagnostics[j]
                finding == cycles[i].output.critiques[j]
            IN  IF ClientDeclaredRelatedInformation
                THEN /\ "relatedInformation" \in DOMAIN d
                     /\ d.relatedInformation =
                            <<[location |-> [uri |-> cycles[i].sent[k].uri,
                                             range |-> d.range],
                               message |-> finding.explanation]>>
                ELSE "relatedInformation" \notin DOMAIN d

C11_Witness ==
    /\ ClientDeclaredRelatedInformation
    /\ \E i \in 1..Len(cycles) :
          /\ Len(cycles[i].sent) = 1
          /\ Len(cycles[i].sent[1].diagnostics) = 1
          /\ "relatedInformation" \in DOMAIN cycles[i].sent[1].diagnostics[1]

\* cycle i ends in this step: its promise resolves and validateTextDocument
\* runs to its end
CycleEnds(i) ==
    /\ i <= Len(cycles)
    /\ cycles[i].state = "running"
    /\ cycles'[i].state = "resolved"

\* C12: when a cycle whose analyzer ran ends in an error (stderr text or a
\* malformed record), the step shows exactly one message, the error, and
\* sends nothing: what the client displays for the document stays as it
\* was, and the cycle sends nothing later either, whatever findings its
\* Output holds.
C12_ErrorCyclePublishesNothing ==
    [][\A i \in 1..Len(cycles') :
          /\ (CycleEnds(i) /\ truthy(cycles'[i].output.error))
                => /\ cycles'[i].shown = <<cycles'[i].output.error>>
                   /\ cycles'[i].sent = <<>>
                   /\ published' = published
          /\ (i <= Len(cycles) /\ cycles[i].state = "resolved")
                => /\ cycles'[i].sent = cycles[i].sent
                   /\ cycles'[i].shown = cycles[i].shown]_vars

C12_Witness ==
    /\ published # <<>>
    /\ \E i \in 1..Len(cycles) :
          /\ cycles[i].spawned
          /\ cycles[i].state = "resolved"
          /\ truthy(cycles[i].output.error)
          /\ cycles[i].output.critiques # <<>>
          /\ cycles[i].shown = <<cycles[i].output.error>>
          /\ cycles[i].sent = <<>>

\* C13: when the Output of a cycle is constructed in the 'end' handler of
\* stdout, the errorStr passed to it holds every chunk the process writes
\* to stderr, and the outputStr every chunk of stdout, whatever the order
\* in which the events of the two streams arrive.
C13_OutputHasCompleteStreams ==
    \A i \in 1..Len(cycles) :
        (cycles[i].spawned /\ cycles[i].state # "running")
            => /\ cycles[i].stdout = <<>>
               /\ cycles[i].errorStrPassed = cycles[i].stderrAll

\* the diagnostics cycle i sends when it ends without an error
DiagnosticsOfCycle(i) ==
    diagnosticsOf(cycles'[i].output.critiques,
                  hasDiagnosticRelatedInformationCapability)

\* C14: cycles of the same document run side by side: starting a cycle
\* leaves every earlier cycle as it is, running ones included; a cycle
\* that ends without an error sends its own diagnostics in that step,
\* whatever the other cycles do, and they become what the client displays;
\* and the display changes in no other way, so it always shows the
\* diagnostics of the cycle that ended last.
C14_LastCompletedCycleWins ==
    [][/\ \A i \in 1..Len(cycles) : Len(cycles') > Len(cycles)
              => cycles'[i] = cycles[i]
       /\ \A i \in 1..Len(cycles) :
              (CycleEnds(i) /\ ~truthy(cycles'[i].output.error))
                  => /\ cycles'[i].sent =
                            <<[uri |-> DocumentUri,
                               diagnostics |-> DiagnosticsOfCycle(i)]>>
                     /\ published' = DiagnosticsOfCycle(i)
       /\ published' # published
              => \E i \in 1..Len(cycles') :
                    /\ i > Len(cycles) \/ cycles[i].state = "running"
                    /\ cycles'[i].state = "resolved"
                    /\ cycles'[i].sent # <<>>
                    /\ published' = cycles'[i].sent[1].diagnostics]_vars

\* the first cycle, started on an older text, ended after the second one
\* and its diagnostics are the ones displayed
C14_Witness ==
    /\ Len(cycles) = 2
    /\ cycles[1].spawned /\ cycles[2].spawned
    /\ cycles[1].state = "resolved" /\ cycles[2].state = "resolved"
    /\ cycles[1].text # cycles[2].text
    /\ cycles[2].text = documentText
    /\ cycles[1].sent # <<>> /\ cycles[2].sent # <<>>
    /\ cycles[1].sent[1].diagnostics # cycles[2].sent[1].diagnostics
    /\ published = cycles[1].sent[1].diagnostics

\* a cycle is started in this step
CycleStarts == Len(cycles') = Len(cycles) + 1

\* the text of the document changes in this step: a content-change event
ContentChanges == documentText' # documentText

\* C15: every cycle started while onSave was true was started by
\* a save event, and every cycle started while onSave was false was not;
\* a content-change event starts a cycle on the new text when onSave is
\* false.
C15_OnSaveOnlyOnSave ==
    [][/\ \A i \in 1..Len(cycles') :
              /\ cycles'[i].onSave => cycles'[i].trigger = "save"
              /\ ~cycles'[i].onSave => cycles'[i].trigger # "save"
       /\ (ContentChanges /\ ~globalSettings.onSave)
              => /\ CycleStarts
                 /\ cycles'[Len(cycles')].trigger = "change"
                 /\ cycles'[Len(cycles')].text = documentText']_vars

\* C16: whatever configuration changes were received, the arguments the
\* analyzer is spawned with begin with the default --quiet and the default
\* --verbose template, none of the arguments after these two is one of
\* the arguments that change the output format, and defaultSettings is
\* the object it was when the module was loaded.
C16_ArgumentsKeepOutputFormat ==
    /\ Len(globalSettings.additionalArguments) >= 2
    /\ globalSettings.additionalArguments[1] = Quiet
    /\ globalSettings.additionalArguments[2] = VerboseTemplate
    /\ \A k \in 3..Len(globalSettings.additionalArguments) :
           globalSettings.additionalArguments[k] \notin FormatArguments
    /\ defaultSettings = DefaultSettingsLiteral

\* the settings after a section whose arguments held --count, --verbose,
\* --force, --statistics-only, --list and --list-enabled
C16_Witness ==
    /\ globalSettings.onSave
    /\ globalSettings.additionalArguments =
           <<Quiet, VerboseTemplate, ArgForce, severityArgument(Brutal),
             topArgument(5)>>
    /\ \E i \in 1..Len(cycles) : cycles[i].spawned /\ cycles[i].onSave

\* ----------------------------------------------------------------------
\* Properties of the parser, continued
\* ----------------------------------------------------------------------
\* C17: once a record of the stream was malformed, the records after it
\* change nothing: no step of the forEach taken with the error set adds a
\* finding or replaces the error, so the error stays the one of the first
\* malformed record.
C17_CollectionStopsAtFirstMalformed ==
    [][(pc = "forEach" /\ NonEmpty(error))
          => (error' = error /\ critiques' = critiques)]_vars

\* C18: the constructor of Output never raises: whatever the output text,
\* it returns with an error or with findings; in particular a record with
\* numeric line, column and severity but fewer than five fields does not
\* make it raise.
C18_ParseIsTotal == pc # "threw"

\* ----------------------------------------------------------------------
\* Properties of the server, continued
\* ----------------------------------------------------------------------
\* C19: a cycle that is no longer waiting for its analyzer has had exactly
\* one outcome: it sent diagnostics once or it showed one error message,
\* not both and not neither; this covers the cycles whose analyzer closed
\* its stdout and those whose spawn failed.
C19_ExactlyOneOutcome ==
    \A i \in 1..Len(cycles) :
        cycles[i].state # "running"
            => Len(cycles[i].shown) + Len(cycles[i].sent) = 1

\* C20: a cycle started on an empty text spawns no analyzer and does not
\* look for the executable; in the step that starts it, it shows nothing
\* and sends the empty diagnostic list for the document, which replaces
\* what the client displayed; and it never shows or sends anything else.
C20_EmptyTextPublishesEmptyList ==
    [][/\ (CycleStarts /\ cycles'[Len(cycles')].text = <<>>)
              => /\ published' = <<>>
                 /\ validateExecutableCache' = validateExecutableCache
       /\ \A i \in 1..Len(cycles') :
              cycles'[i].text = <<>>
                  => /\ ~cycles'[i].spawned
                     /\ cycles'[i].state = "resolved"
                     /\ cycles'[i].shown = <<>>
                     /\ cycles'[i].sent =
                            <<[uri |-> DocumentUri, diagnostics |-> <<>>]>>]_vars

\* the text was emptied after a cycle had published a finding
C20_Witness ==
    /\ Len(cycles) = 2
    /\ cycles[1].sent # <<>>
    /\ cycles[1].sent[1].diagnostics # <<>>
    /\ cycles[2].text = <<>>
    /\ cycles[2].sent = <<[uri |-> DocumentUri, diagnostics |-> <<>>]>>
    /\ published = <<>>

\* ----------------------------------------------------------------------
\* Properties of the merged settings
\* ----------------------------------------------------------------------

\* the arguments name a profile: --profile or -p as an argument of its
\* own, or --profile=<file>
SpecifiesProfile(arguments) ==
    \E k \in 1..Len(arguments) :
        \/ arguments[k] = ArgProfile
        \/ arguments[k] = ArgP
        \/ OccursAt(arguments[k], ArgProfile \o <<"=">>, 1)

\* the number of arguments equal to a
Occurrences(arguments, a) ==
    Cardinality({k \in 1..Len(arguments) : arguments[k] = a})

\* the settings are the result of a merge, not the defaults
SettingsMerged == initialized /\ globalSettings # defaultSettings

\* C21: the merged arguments hold no --<severity> when the user's arguments
\* specify a profile (--profile, -p or --profile=<file>) and exactly one
\* otherwise; --top=<maxNumberOfProblems> is there in both cases.  The
\* profile arguments of the user pass the filter, so they are read from
\* the merged list.
C21_SeverityOnlyWithoutProfile ==
    SettingsMerged =>
        LET arguments == globalSettings.additionalArguments
            severityCount ==
                Occurrences(arguments,
                            severityArgument(globalSettings.severity))
        IN  /\ IF SpecifiesProfile(arguments)
               THEN severityCount = 0
               ELSE severityCount = 1
            /\ Occurrences(arguments,
                   topArgument(globalSettings.maxNumberOfProblems)) = 1

\* C21, without the spelling --profile=<file>: the part of the statement
\* the code keeps
C21_SeverityOnlyWithoutProfileArgument ==
    SettingsMerged =>
        LET arguments == globalSettings.additionalArguments
            severityCount ==
                Occurrences(arguments,
                            severityArgument(globalSettings.severity))
        IN  /\ IF indexOf(arguments, ArgProfile) # 0 - 1
                  \/ indexOf(arguments, ArgP) # 0 - 1
               THEN severityCount = 0
               ELSE severityCount = 1
            /\ Occurrences(arguments,
                   topArgument(globalSettings.maxNumberOfProblems)) = 1

\* the settings after a section whose arguments were --profile=a.rc
C21_ProfileEqualsMerged ==
    /\ SettingsMerged
    /\ globalSettings.additionalArguments =
           <<Quiet, VerboseTemplate, ArgProfileEquals,
             severityArgument(Gentle), topArgument(10)>>

\* ----------------------------------------------------------------------
\* Properties of the executable cache
\* ----------------------------------------------------------------------

\* what validateExecutable computes for a name when nothing is cached
Resolution(executable) == validateExecutable(executable, <<>>).result

\* this step called validateExecutable: it started a cycle on a text that
\* is not empty
CallsValidateExecutable ==
    /\ Len(cycles') = Len(cycles) + 1
    /\ cycles'[Len(cycles')].text # <<>>

\* C22: a call of validateExecutable for a name gives the resolution of
\* that name, whatever was cached before (the analyzer is spawned exactly
\* when that resolution is not empty), and leaves the name with its own
\* resolution in the cache, also when the resolution is the empty string;
\* steps without a call leave the cache alone.
C22_CacheNeverAnswersForAnotherName ==
    [][IF CallsValidateExecutable
       THEN /\ validateExecutableCache' =
                   <<globalSettings'.executable,
                     Resolution(globalSettings'.executable)>>
            /\ cycles'[Len(cycles')].spawned
                   <=> Resolution(globalSettings'.executable) # <<>>
       ELSE validateExecutableCache' = validateExecutableCache]_vars

\* a call for a name that does not resolve left the empty result in the
\* cache, and the next call, for another name, resolved that name and
\* replaced the entry
C22_Witness ==
    /\ Len(cycles) = 2
    /\ cycles[1].text # <<>> /\ ~cycles[1].spawned
    /\ cycles[2].text # <<>> /\ cycles[2].spawned
    /\ validateExecutableCache = <<ExePerlcritic, PathPerlcritic>>

====
